---- MODULE Spec2Model ----
(***************************************************************************)
(* A model of main.py: the SerialReader thread (line decoder, normalizer), *)
(* the mailbox queue.Queue, and FlappyApp (key bindings, frame loop, menu  *)
(* and session state, physics, collision and scoring, status telemetry).   *)
(*                                                                         *)
(* Units.  Wall-clock time is counted in clock units of 1/UNITS_PER_SEC    *)
(* second (0.05 s), so 0.2 s is 4 units and 3.0 s is 60 units.  Horizontal *)
(* positions are whole pixels (PIPE_SPEED * dt is 7 px per unit).  The     *)
(* bird's height is kept in 1/SUB pixel (button mode moves it by multiples *)
(* of 1/4 px, the analog modes place it at multiples of 1/3 px), so every  *)
(* value the code computes in floats is exact here; float rounding is not  *)
(* modelled.  Bytes are one-character strings.  Rendering state            *)
(* (bird_angle, bg_scroll_x, has_played_once, images) and game_start_time, *)
(* which no logic reads, are left out.                                     *)
(***************************************************************************)
EXTENDS Integers, Sequences, FiniteSets, TLC

\* ---------------------------------------------------------------- config
UNITS_PER_SEC == 20
SUB == 12
WIDTH == 400
HEIGHT == 600
GRAVITY == 900
FLAP_VY == -320
PIPE_GAP == 160
PIPE_SPEED == 140
\* PIPE_INTERVAL = 1.5 s, in clock units
PIPE_INTERVAL == 30
\* width of the pipe image (the fallback rectangle, 60 px)
PIPE_W == 60
N_DEVICES == 4
READ_SIZE == 128
\* Python's None; `game_over_time or now` treats None and 0.0 alike, and
\* time.time() is never 0.
None == 0

\* the status send period, 0.2 s, and the game-over dwell, 3.0 s, in clock units
SEND_PERIOD == 4
DWELL == 60
\* sensor values are clamped to 0..SENSOR_MAX, and start at SENSOR_INIT
SENSOR_MAX == 30
SENSOR_INIT == 15

\* ---------------------------------------------------------------- bounds
\* The reading of time.time() at the current tick.  Only differences of time
\* stamps are ever read, so the model moves its time origin with the clock
\* (see Rebase) instead of letting the clock grow.
NOW == 100
\* key presses the environment may cause in one behaviour of the app without
\* a port, and key presses and board lines in one of the app with a port
MaxInputs == 7
MaxBoardInputs == 3
MaxTelemetryInputs == 1
\* the frame loop is followed in Play while score < MaxScore
MaxScore == 2
\* ... and while the bird is within MaxFall pixels of the field
MaxFall == 1000
\* lines of an inbound stream of the decoder specification
MaxStreamLines == 2
\* elapsed time between two ticks, in clock units (measured, never clamped):
\* without a port, and with one
DtSet == {10, 20, 21}
BoardDtSet == {20, 21}
\* the values random.randint(100, HEIGHT - PIPE_GAP - 100) is drawn from
GapSet == {100, HEIGHT - PIPE_GAP - 100}

Min(a, b) == IF a < b THEN a ELSE b
Max(a, b) == IF a > b THEN a ELSE b

\* ------------------------------------------------- bytes, lines, parsing
LF == "\n"
Whitespace == {" ", "\r", "\t"}
DigitChars == <<"0", "1", "2", "3", "4", "5", "6", "7", "8", "9">>
Digits == {DigitChars[i] : i \in 1..10}
DigitVal(c) == (CHOOSE i \in 1..10 : DigitChars[i] = c) - 1
\* a byte that is no valid UTF-8
BadByte == "xFF"

StartsWith(s, p) == Len(s) >= Len(p) /\ SubSeq(s, 1, Len(p)) = p

\* bytes.split(b'\n'): the parts between the terminators, the last one the
\* unterminated remainder (possibly empty)
RECURSIVE SplitLF(_)
SplitLF(b) ==
    IF \A i \in 1..Len(b) : b[i] # LF
    THEN <<b>>
    ELSE LET i == CHOOSE j \in 1..Len(b) :
                      b[j] = LF /\ \A k \in 1..(j - 1) : b[k] # LF
         IN <<SubSeq(b, 1, i - 1)>> \o SplitLF(SubSeq(b, i + 1, Len(b)))

\* raw.decode(errors='ignore')
Decode(raw) == SelectSeq(raw, LAMBDA c : c # BadByte)

\* str.strip()
RECURSIVE LStrip(_)
LStrip(s) == IF s # <<>> /\ Head(s) \in Whitespace THEN LStrip(Tail(s)) ELSE s
RECURSIVE RStrip(_)
RStrip(s) ==
    IF s # <<>> /\ s[Len(s)] \in Whitespace
    THEN RStrip(SubSeq(s, 1, Len(s) - 1)) ELSE s
Strip(s) == RStrip(LStrip(s))

\* line.split(":", 1)[1], for a line that holds a colon
AfterColon(line) ==
    LET i == CHOOSE j \in 1..Len(line) :
                 line[j] = ":" /\ \A k \in 1..(j - 1) : line[k] # ":"
    IN SubSeq(line, i + 1, Len(line))

RECURSIVE DigitsValue(_, _)
DigitsValue(s, acc) ==
    IF s = <<>> THEN acc
    ELSE IF Head(s) = "_" THEN DigitsValue(Tail(s), acc)
    ELSE DigitsValue(Tail(s), 10 * acc + DigitVal(Head(s)))

\* int(s): surrounding whitespace, an optional sign, digits with single
\* underscores between them; anything else raises ValueError (ok = FALSE)
ParseInt(s) ==
    LET t == Strip(s)
        signed == t # <<>> /\ Head(t) \in {"+", "-"}
        body == IF signed THEN Tail(t) ELSE t
        wellFormed ==
            /\ body # <<>>
            /\ \A i \in 1..Len(body) : body[i] \in Digits \cup {"_"}
            /\ body[1] \in Digits /\ body[Len(body)] \in Digits
            /\ \A i \in 1..(Len(body) - 1) : ~(body[i] = "_" /\ body[i + 1] = "_")
        mag == DigitsValue(body, 0)
    IN IF wellFormed
       THEN [ok |-> TRUE, val |-> IF signed /\ Head(t) = "-" THEN 0 - mag ELSE mag]
       ELSE [ok |-> FALSE, val |-> 0]

S_BTN == <<"B", "T", "N">>
S_BTN1 == <<"B", "T", "N", "1">>
S_BTN2 == <<"B", "T", "N", "2">>
S_IR == <<"I", "R", ":">>
S_ENC == <<"E", "N", "C", ":">>
S_ULTRA == <<"U", "L", "T", "R", "A", ":">>
S_US == <<"U", "S", ":">>
S_MAX == <<"M", "A", "X", ":">>

Ev(m, v) == [msg |-> m, val |-> v]

SensorEvent(m, line) ==
    LET r == ParseInt(AfterColon(line))
    IN IF r.ok THEN <<Ev(m, r.val)>> ELSE <<>>

\* Faulty variant of Normalize: the BTN test is startswith("BTN"), so BTN1
\* and BTN2 are taken for BTN.
Normalize_Prefix(raw) ==
    LET line == Strip(Decode(raw))
    IN IF line = <<>> THEN <<>>
       ELSE IF StartsWith(line, S_BTN) THEN <<Ev("BTN", None)>>
       ELSE IF StartsWith(line, S_IR) THEN SensorEvent("IR", line)
       ELSE IF StartsWith(line, S_ENC) THEN SensorEvent("ENC", line)
       ELSE IF StartsWith(line, S_ULTRA) \/ StartsWith(line, S_US)
            THEN SensorEvent("ULTRA", line)
       ELSE <<>>

\* The if/elif chain of SerialReader.run on one raw line: the events it puts
\* on the mailbox (none or one)
Normalize(raw) ==
    LET line == Strip(Decode(raw))
    IN IF line = <<>> THEN <<>>
       ELSE IF line = S_BTN THEN <<Ev("BTN", None)>>
       ELSE IF line = S_BTN1 THEN <<Ev("BTN1", None)>>
       ELSE IF line = S_BTN2 THEN <<Ev("BTN2", None)>>
       ELSE IF StartsWith(line, S_IR) THEN SensorEvent("IR", line)
       ELSE IF StartsWith(line, S_ENC) THEN SensorEvent("ENC", line)
       ELSE IF StartsWith(line, S_ULTRA) \/ StartsWith(line, S_US)
            THEN SensorEvent("ULTRA", line)
       ELSE <<>>

\* ------------------------------------------------------------------ state
VARIABLES
    app,            \* the FlappyApp object: its fields
    queue,          \* self.queue, the mailbox (queue.Queue)
    lpc,            \* where the main thread is: "idle" between ticks, else in loop()
    dt,             \* loop()'s local dt (0 outside a tick)
    tx,             \* the status messages written to the port in the last
                    \* second, oldest first, each with the time of its write
    tx_error,       \* the time of the last write that raised, while it is
                    \* less than SEND_PERIOD ago (0: none)
    serial_thread,  \* whether a SerialReader was started
    rpc,            \* where the reader thread is
    ser,            \* the port handle: "none", "open", "closed"
    buf,            \* SerialReader.run's carryover buffer
    parts,          \* the complete raw lines of the current read, still to process
    stop_flag,      \* SerialReader._stop
    wire,           \* inbound bytes that have arrived and are not read yet
    stream,         \* decoder specification: the whole inbound stream
    ninputs         \* inputs the environment has caused so far

vars == <<app, queue, lpc, dt, tx, tx_error, serial_thread, rpc, ser, buf, parts,
          stop_flag, wire, stream, ninputs>>
readerVars == <<serial_thread, rpc, ser, buf, parts, stop_flag, wire, stream>>

\* --------------------------------------------------- FlappyApp: handlers
\* Each handler is an operator from the object's fields to its fields.

\* Faulty variant of InitialPipe: the spacing lacks the + 60.
InitialPipe_NoMargin(i) ==
    [x |-> WIDTH + i * ((PIPE_INTERVAL * PIPE_SPEED) \div UNITS_PER_SEC),
     gap_y |-> HEIGHT \div 2, scored |-> FALSE]

InitialPipe(i) ==
    [x |-> WIDTH + i * ((PIPE_INTERVAL * PIPE_SPEED) \div UNITS_PER_SEC + 60),
     gap_y |-> HEIGHT \div 2, scored |-> FALSE]

\* Faulty variant of reset_game_vars: the device selection is reset too.
reset_game_vars_Device(a) ==
    [a EXCEPT !.bird_y = (HEIGHT * SUB) \div 2, !.bird_vy = 0,
              !.pipes = <<>>, !.score = 0, !.input_device = 0]

reset_game_vars(a) ==
    [a EXCEPT !.bird_y = (HEIGHT * SUB) \div 2, !.bird_vy = 0,
              !.pipes = <<>>, !.score = 0]

start_game(a) ==
    LET r == reset_game_vars(a)
    IN [r EXCEPT !.state = "play", !.game_over_time = None,
                 !.pipes = <<InitialPipe(0), InitialPipe(1), InitialPipe(2)>>]

toggle_test_mode(a) == [a EXCEPT !.test_mode = ~@]

\* the first part of key_up / key_down: in Play an analog device's simulated
\* value is moved and the handler returns
NudgeField(a) ==
    CASE a.input_device = 1 -> "ir_value"
      [] a.input_device = 2 -> "enc_value"
      [] a.input_device = 3 -> "ultra_value"

\* Faulty variant of key_up: the overlay is not cleared at the top level.
key_up_KeepOverlay(a) ==
    IF a.state = "play" /\ a.input_device \in {1, 2, 3}
    THEN [a EXCEPT ![NudgeField(a)] = Max(0, @ - 1)]
    ELSE IF a.state # "menu" THEN a
    ELSE IF ~a.in_input_menu
         THEN [a EXCEPT !.menu_selection = (@ - 1) % 3]
         ELSE [a EXCEPT !.input_selection = (@ - 1) % N_DEVICES]

key_up(a) ==
    IF a.state = "play" /\ a.input_device \in {1, 2, 3}
    THEN [a EXCEPT ![NudgeField(a)] = Max(0, @ - 1)]
    ELSE IF a.state # "menu" THEN a
    ELSE IF ~a.in_input_menu
         THEN [a EXCEPT !.menu_selection = (@ - 1) % 3, !.show_instructions = FALSE]
         ELSE [a EXCEPT !.input_selection = (@ - 1) % N_DEVICES]

key_down(a) ==
    IF a.state = "play" /\ a.input_device \in {1, 2, 3}
    THEN [a EXCEPT ![NudgeField(a)] = Min(SENSOR_MAX, @ + 1)]
    ELSE IF a.state # "menu" THEN a
    ELSE IF ~a.in_input_menu
         THEN [a EXCEPT !.menu_selection = (@ + 1) % 3, !.show_instructions = FALSE]
         ELSE [a EXCEPT !.input_selection = (@ + 1) % N_DEVICES]

key_enter(a) ==
    IF a.state # "menu" THEN a
    ELSE IF ~a.in_input_menu
         THEN CASE a.menu_selection = 0 -> start_game(a)
                [] a.menu_selection = 1 -> [a EXCEPT !.in_input_menu = TRUE]
                [] a.menu_selection = 2 -> [a EXCEPT !.show_instructions = ~@]
                [] OTHER -> a
         ELSE [a EXCEPT !.input_device = a.input_selection,
                        !.in_input_menu = FALSE]

modify_sensor_value(a, delta) ==
    IF a.state # "play" THEN a
    ELSE IF a.input_device \in {1, 2, 3}
         THEN [a EXCEPT ![NudgeField(a)] = Max(0, Min(SENSOR_MAX, @ + delta))]
         ELSE a

\* Faulty variant of handle_button: the flap is added to the velocity.
handle_button_Impulse(a) ==
    CASE a.state = "menu" -> key_enter(a)
      [] a.state = "play" ->
             IF a.input_device = 0 THEN [a EXCEPT !.bird_vy = @ + FLAP_VY] ELSE a
      [] a.state = "gameover" -> [a EXCEPT !.state = "menu"]
      [] OTHER -> a

\* Faulty variant of handle_button: in the menu the button only starts the
\* round.
handle_button_StartOnly(a) ==
    CASE a.state = "menu" ->
             IF ~a.in_input_menu /\ a.menu_selection = 0 THEN start_game(a) ELSE a
      [] a.state = "play" ->
             IF a.input_device = 0 THEN [a EXCEPT !.bird_vy = FLAP_VY] ELSE a
      [] a.state = "gameover" -> [a EXCEPT !.state = "menu"]
      [] OTHER -> a

\* Faulty variant of handle_button: nothing is done in GameOver.
handle_button_Wait(a) ==
    CASE a.state = "menu" -> key_enter(a)
      [] a.state = "play" ->
             IF a.input_device = 0 THEN [a EXCEPT !.bird_vy = FLAP_VY] ELSE a
      [] OTHER -> a

handle_button(a) ==
    CASE a.state = "menu" -> key_enter(a)
      [] a.state = "play" ->
             IF a.input_device = 0 THEN [a EXCEPT !.bird_vy = FLAP_VY] ELSE a
      [] a.state = "gameover" -> [a EXCEPT !.state = "menu"]
      [] OTHER -> a

Clamp(v) == Max(0, Min(SENSOR_MAX, v))

\* loop(): the dispatch on one mailbox item
handle_event(a, e) ==
    CASE e.msg = "BTN" -> handle_button(a)
      [] e.msg = "BTN1" -> key_up(a)
      [] e.msg = "BTN2" -> key_down(a)
      [] e.msg = "IR" -> [a EXCEPT !.ir_value = Clamp(e.val)]
      [] e.msg = "ENC" -> [a EXCEPT !.enc_value = Clamp(e.val)]
      [] e.msg = "ULTRA" -> [a EXCEPT !.ultra_value = Clamp(e.val)]
      [] OTHER -> a


\* ------------------------------------------------- physics and collision
SensorValue(a) ==
    CASE a.input_device = 1 -> a.ir_value
      [] a.input_device = 2 -> a.enc_value
      [] OTHER -> a.ultra_value

\* update_physics, the bird: bird_y = (value / 30) * (HEIGHT - 50) for an
\* analog device, else gravity on bird_vy and bird_vy on bird_y
MoveBird(a, d) ==
    IF a.input_device \in {1, 2, 3}
    THEN [a EXCEPT !.bird_y = (SensorValue(a) * (HEIGHT - 50) * SUB) \div SENSOR_MAX]
    ELSE LET vy == a.bird_vy + (GRAVITY * d) \div UNITS_PER_SEC
         IN [a EXCEPT !.bird_vy = vy,
                      !.bird_y = @ + (vy * d * SUB) \div UNITS_PER_SEC]

\* Faulty variant of MovePipes: a pipe is appended whenever the last one has
\* left the right edge, whatever the distance.
MovePipes_NoSpacing(ps, d, gap) ==
    LET moved == [i \in 1..Len(ps) |->
                     [ps[i] EXCEPT !.x = @ - (PIPE_SPEED * d) \div UNITS_PER_SEC]]
        kept == SelectSeq(moved, LAMBDA p : p.x + PIPE_W > 0)
    IN IF Len(kept) = 0 \/ kept[Len(kept)].x < WIDTH
       THEN Append(kept, [x |-> WIDTH, gap_y |-> gap, scored |-> FALSE])
       ELSE kept

\* update_physics, the pipes: move, prune, spawn (gap: the random gap_y)
MovePipes(ps, d, gap) ==
    LET moved == [i \in 1..Len(ps) |->
                     [ps[i] EXCEPT !.x = @ - (PIPE_SPEED * d) \div UNITS_PER_SEC]]
        kept == SelectSeq(moved, LAMBDA p : p.x + PIPE_W > 0)
    IN IF Len(kept) = 0
          \/ kept[Len(kept)].x < WIDTH - (PIPE_SPEED * PIPE_INTERVAL) \div UNITS_PER_SEC
       THEN Append(kept, [x |-> WIDTH, gap_y |-> gap, scored |-> FALSE])
       ELSE kept

update_physics(a, d, gap) ==
    LET b == MoveBird(a, d)
    IN [b EXCEPT !.pipes = MovePipes(@, d, gap)]

BX1 == WIDTH \div 4 - 10
BX2 == WIDTH \div 4 + 10

\* Faulty variant of ScanPipes: a pipe behind the bird is scored whether or
\* not it is latched.
RECURSIVE ScanPipes_NoLatch(_, _, _, _)
ScanPipes_NoLatch(ps, i, score, by) ==
    IF i > Len(ps) THEN [hit |-> FALSE, pipes |-> ps, score |-> score]
    ELSE LET px1 == ps[i].x
             px2 == ps[i].x + PIPE_W
             gap_top == ps[i].gap_y * SUB
             gap_bottom == (ps[i].gap_y + PIPE_GAP) * SUB
         IN IF ~(BX2 < px1 \/ BX1 > px2) /\ (by < gap_top \/ by > gap_bottom)
            THEN [hit |-> TRUE, pipes |-> ps, score |-> score]
            ELSE IF px2 < BX1
                 THEN ScanPipes_NoLatch([ps EXCEPT ![i].scored = TRUE], i + 1,
                                        score + 1, by)
                 ELSE ScanPipes_NoLatch(ps, i + 1, score, by)

\* check_collision's loop over the pipes from pipe i on: the first pipe the
\* bird hits ends the scan; a pipe behind the bird is scored on the way
RECURSIVE ScanPipes(_, _, _, _)
ScanPipes(ps, i, score, by) ==
    IF i > Len(ps) THEN [hit |-> FALSE, pipes |-> ps, score |-> score]
    ELSE LET px1 == ps[i].x
             px2 == ps[i].x + PIPE_W
             gap_top == ps[i].gap_y * SUB
             gap_bottom == (ps[i].gap_y + PIPE_GAP) * SUB
         IN IF ~(BX2 < px1 \/ BX1 > px2) /\ (by < gap_top \/ by > gap_bottom)
            THEN [hit |-> TRUE, pipes |-> ps, score |-> score]
            ELSE IF px2 < BX1 /\ ~ps[i].scored
                 THEN ScanPipes([ps EXCEPT ![i].scored = TRUE], i + 1, score + 1, by)
                 ELSE ScanPipes(ps, i + 1, score, by)

\* Faulty variant of check_collision: the field edges are tested before
\* test_mode.
check_collision_EdgesFirst(a) ==
    IF a.bird_y <= 0 \/ a.bird_y >= HEIGHT * SUB
    THEN [hit |-> TRUE, pipes |-> a.pipes, score |-> a.score]
    ELSE IF a.test_mode THEN [hit |-> FALSE, pipes |-> a.pipes, score |-> a.score]
         ELSE ScanPipes(a.pipes, 1, a.score, a.bird_y)

\* check_collision: the value returned (hit) and the fields it changes
check_collision(a) ==
    IF a.test_mode THEN [hit |-> FALSE, pipes |-> a.pipes, score |-> a.score]
    ELSE IF a.bird_y <= 0 \/ a.bird_y >= HEIGHT * SUB
         THEN [hit |-> TRUE, pipes |-> a.pipes, score |-> a.score]
         ELSE ScanPipes(a.pipes, 1, a.score, a.bird_y)

\* Faulty variant of play_tick: best_score is overwritten with score.
play_tick_Overwrite(a, d, gap) ==
    LET b == update_physics(a, d, gap)
        c == check_collision(b)
        s == [b EXCEPT !.pipes = c.pipes, !.score = c.score]
    IN IF c.hit
       THEN [s EXCEPT !.best_score = s.score,
                      !.state = "gameover",
                      !.game_over_time = a.last_time]
       ELSE s

\* loop(), "Update game state", in Play
play_tick(a, d, gap) ==
    LET b == update_physics(a, d, gap)
        c == check_collision(b)
        s == [b EXCEPT !.pipes = c.pipes, !.score = c.score]
    IN IF c.hit
       THEN [s EXCEPT !.best_score = IF s.score > @ THEN s.score ELSE @,
                      !.state = "gameover",
                      !.game_over_time = a.last_time]
       ELSE s

\* Faulty variant of gameover_tick: the dwell test is >= instead of >.
gameover_tick_AtLeast(a) ==
    LET now == a.last_time
        since == IF a.game_over_time = None THEN now ELSE a.game_over_time
    IN IF now - since >= DWELL THEN [a EXCEPT !.state = "menu"] ELSE a

\* ... and in GameOver; now is last_time (loop() has just stored it)
gameover_tick(a) ==
    LET now == a.last_time
        since == IF a.game_over_time = None THEN now ELSE a.game_over_time
    IN IF now - since > DWELL THEN [a EXCEPT !.state = "menu"] ELSE a

update_state(a, d, gap) ==
    CASE a.state = "play" -> play_tick(a, d, gap)
      [] a.state = "gameover" -> gameover_tick(a)
      [] OTHER -> a


\* ------------------------------------------------------------------- Init
\* FlappyApp.__init__: the fields after construction.  Time stamps: 0 is
\* both None and the 0.0 last_serial_send starts at (long before NOW).
InitApp ==
    [state |-> "menu", last_time |-> NOW, last_serial_send |-> 0,
     menu_selection |-> 0, in_input_menu |-> FALSE, input_selection |-> 0,
     input_device |-> 0, bird_y |-> (HEIGHT * SUB) \div 2, bird_vy |-> 0,
     pipes |-> <<>>, score |-> 0, show_instructions |-> FALSE,
     best_score |-> 0, game_over_time |-> None,
     ir_value |-> SENSOR_INIT, enc_value |-> SENSOR_INIT,
     ultra_value |-> SENSOR_INIT, test_mode |-> FALSE, running |-> TRUE]

InitCommon ==
    /\ app = InitApp
    /\ queue = <<>>
    /\ lpc = "idle"
    /\ dt = 0
    /\ tx = <<>>
    /\ tx_error = 0
    /\ ser = "none"
    /\ buf = <<>>
    /\ parts = <<>>
    /\ stop_flag = FALSE
    /\ ninputs = 0

\* a reader thread is started when a port was given or found and pyserial
\* could be imported
Init ==
    /\ InitCommon
    /\ serial_thread \in BOOLEAN
    /\ rpc = IF serial_thread THEN "open" ELSE "none"
    /\ wire = <<>>
    /\ stream = <<>>

\* ----------------------------------------------------- the reader thread
\* serial.Serial(...): the port opens, or the thread returns
ReaderOpen ==
    /\ rpc = "open"
    /\ \/ ser' = "open" /\ rpc' = "loop"
       \/ ser' = ser /\ rpc' = "done"
    /\ UNCHANGED <<app, queue, lpc, dt, tx, tx_error, serial_thread, buf, parts,
                   stop_flag, wire, stream, ninputs>>

\* Faulty variant of ReaderRead: only the new data is split, the carryover
\* is dropped.
ReaderRead_NoCarry(k) ==
    /\ rpc = "loop" /\ ~stop_flag
    /\ k \in 0..Min(Len(wire), READ_SIZE)
    /\ wire' = SubSeq(wire, k + 1, Len(wire))
    /\ IF k = 0
       THEN UNCHANGED <<buf, parts, rpc>>
       ELSE LET sp == SplitLF(SubSeq(wire, 1, k))
            IN /\ buf' = sp[Len(sp)]
               /\ parts' = SubSeq(sp, 1, Len(sp) - 1)
               /\ rpc' = IF Len(sp) > 1 THEN "lines" ELSE "loop"
    /\ UNCHANGED <<app, queue, lpc, dt, tx, tx_error, serial_thread, ser, stop_flag,
                   stream, ninputs>>

\* one pass of the while loop up to the for loop: read(128) returns k bytes
\* (none on a timeout), which are appended to buf and split at the newlines
ReaderRead(k) ==
    /\ rpc = "loop" /\ ~stop_flag
    /\ k \in 0..Min(Len(wire), READ_SIZE)
    /\ wire' = SubSeq(wire, k + 1, Len(wire))
    /\ IF k = 0
       THEN UNCHANGED <<buf, parts, rpc>>
       ELSE LET sp == SplitLF(buf \o SubSeq(wire, 1, k))
            IN /\ buf' = sp[Len(sp)]
               /\ parts' = SubSeq(sp, 1, Len(sp) - 1)
               /\ rpc' = IF Len(sp) > 1 THEN "lines" ELSE "loop"
    /\ UNCHANGED <<app, queue, lpc, dt, tx, tx_error, serial_thread, ser, stop_flag,
                   stream, ninputs>>

\* one pass of the for loop: the next complete line is normalized and its
\* event, if any, put on the mailbox
ReaderLine ==
    /\ rpc = "lines"
    /\ queue' = queue \o Normalize(Head(parts))
    /\ parts' = Tail(parts)
    /\ rpc' = IF Tail(parts) = <<>> THEN "loop" ELSE "lines"
    /\ UNCHANGED <<app, lpc, dt, tx, tx_error, serial_thread, ser, buf, stop_flag,
                   wire, stream, ninputs>>

\* read() raises: the error is printed and the loop left
ReaderError ==
    /\ rpc = "loop" /\ ~stop_flag
    /\ rpc' = "close"
    /\ UNCHANGED <<app, queue, lpc, dt, tx, tx_error, serial_thread, ser, buf, parts,
                   stop_flag, wire, stream, ninputs>>

\* the while condition finds _stop set
ReaderStopped ==
    /\ rpc = "loop" /\ stop_flag
    /\ rpc' = "close"
    /\ UNCHANGED <<app, queue, lpc, dt, tx, tx_error, serial_thread, ser, buf, parts,
                   stop_flag, wire, stream, ninputs>>

\* after the loop: the port is closed if it is open
ReaderClose ==
    /\ rpc = "close"
    /\ ser' = IF ser = "open" THEN "closed" ELSE ser
    /\ rpc' = "done"
    /\ UNCHANGED <<app, queue, lpc, dt, tx, tx_error, serial_thread, buf, parts,
                   stop_flag, wire, stream, ninputs>>

\* the board sends one line (environment)
DeviceSend(line) ==
    /\ ser = "open" /\ wire = <<>> /\ parts = <<>>
    /\ ninputs < MaxBoardInputs
    /\ wire' = line \o <<LF>>
    /\ ninputs' = ninputs + 1
    /\ UNCHANGED <<app, queue, lpc, dt, tx, tx_error, serial_thread, rpc, ser, buf,
                   parts, stop_flag, stream>>

\* ------------------------------------------------ main thread: bindings
\* Tk runs a binding between two ticks, while mainloop() runs
InputLimit == IF serial_thread THEN MaxBoardInputs ELSE MaxInputs
CanPress == lpc = "idle" /\ app.running /\ ninputs < InputLimit

Press(a) ==
    /\ CanPress
    /\ app' = a
    /\ ninputs' = ninputs + 1
    /\ UNCHANGED <<queue, lpc, dt, tx, tx_error, readerVars>>

KeyUp == Press(key_up(app))
KeyDown == Press(key_down(app))
KeyEnter == Press(key_enter(app))
KeyC == Press(toggle_test_mode(app))
KeyLeft == Press(modify_sensor_value(app, -1))
KeyRight == Press(modify_sensor_value(app, 1))

\* <space>: self.queue.put(("BTN", None))
KeySpace ==
    /\ CanPress
    /\ queue' = Append(queue, Ev("BTN", None))
    /\ ninputs' = ninputs + 1
    /\ UNCHANGED <<app, lpc, dt, tx, tx_error, readerVars>>

\* ---------------------------------------------- main thread: loop()
\* The time origin moves with the clock: a time stamp t read d units later
\* is t - d, and one older than the longest span it is compared with
\* (window) is kept at that age.  0 (None, or the initial 0.0) stays 0.
Rebase(t, d, window) == IF t = 0 THEN 0 ELSE Max(t - d, NOW - window)

\* the writes of tx that are less than a second old d clock units later,
\* with their time stamps in the moved time origin
Aged(log, d) ==
    LET recent == SelectSeq(log, LAMBDA w : w.at - d > NOW - UNITS_PER_SEC)
    IN [i \in 1..Len(recent) |-> [recent[i] EXCEPT !.at = @ - d]]

\* the model follows a round while the score and the bird are in bounds
InBounds(a) ==
    a.state = "play" =>
        /\ a.score < MaxScore
        /\ a.bird_y <= (HEIGHT + MaxFall) * SUB
        /\ a.bird_y >= (0 - MaxFall) * SUB

\* now = time.time(); dt = now - self.last_time; self.last_time = now,
\* d clock units after the previous tick
LoopBegin(d) ==
    /\ lpc = "idle" /\ app.running /\ InBounds(app)
    /\ tx' = Aged(tx, d)
    /\ tx_error' = IF tx_error = 0 \/ tx_error - d <= NOW - SEND_PERIOD
                    THEN 0 ELSE tx_error - d
    /\ app' = [app EXCEPT
                 !.last_time = NOW,
                 !.game_over_time = Rebase(@, d, DWELL + 1),
                 !.last_serial_send = Rebase(@, d, SEND_PERIOD)]
    /\ dt' = d
    /\ lpc' = "drain"
    /\ UNCHANGED <<queue, readerVars, ninputs>>

\* get_nowait() returns an item, which is handled
LoopGet ==
    /\ lpc = "drain" /\ queue # <<>>
    /\ app' = handle_event(app, Head(queue))
    /\ queue' = Tail(queue)
    /\ UNCHANGED <<lpc, dt, tx, tx_error, readerVars, ninputs>>

\* Faulty variant of LoopEmpty: the drain may end with items left.
LoopEmpty_Early ==
    /\ lpc = "drain"
    /\ lpc' = "send"
    /\ UNCHANGED <<app, queue, dt, tx, tx_error, readerVars, ninputs>>

\* get_nowait() raises queue.Empty: the drain ends
LoopEmpty ==
    /\ lpc = "drain" /\ queue = <<>>
    /\ lpc' = "send"
    /\ UNCHANGED <<app, queue, dt, tx, tx_error, readerVars, ninputs>>

\* Faulty variant of LoopSendCheck: the rate limit is not applied.
LoopSendCheck_NoLimit ==
    /\ lpc = "send"
    /\ lpc' = IF serial_thread /\ ser = "open" THEN "write" ELSE "update"
    /\ UNCHANGED <<app, queue, dt, tx, tx_error, readerVars, ninputs>>

\* serial_send_status up to the write: its early returns
LoopSendCheck ==
    /\ lpc = "send"
    /\ lpc' = IF /\ serial_thread /\ ser = "open"
                 /\ ~(app.last_time - app.last_serial_send < SEND_PERIOD)
              THEN "write" ELSE "update"
    /\ UNCHANGED <<app, queue, dt, tx, tx_error, readerVars, ninputs>>

StatusMsg(a) ==
    <<a.score, a.best_score, a.input_device, IF a.state = "play" THEN 1 ELSE 0>>

\* ser.write(msg.encode()); self.last_serial_send = now -- or the write
\* raises (an I/O error, or the reader has closed the port meanwhile) and
\* the except clause prints the error
LoopSendWrite ==
    /\ lpc = "write"
    /\ \/ /\ ser = "open"
          /\ tx' = Append(tx, [msg |-> StatusMsg(app), at |-> app.last_time])
          /\ app' = [app EXCEPT !.last_serial_send = app.last_time]
          /\ tx_error' = tx_error
       \/ /\ tx_error' = app.last_time
          /\ UNCHANGED <<tx, app>>
    /\ lpc' = "update"
    /\ UNCHANGED <<queue, dt, readerVars, ninputs>>

\* "Update game state", then root.after(...)
LoopUpdate(gap) ==
    /\ lpc = "update"
    /\ app' = update_state(app, dt, gap)
    /\ dt' = 0
    /\ lpc' = "idle"
    /\ UNCHANGED <<queue, tx, tx_error, readerVars, ninputs>>

\* mainloop() has returned: app.stop()
AppStop ==
    /\ lpc = "idle" /\ app.running
    /\ app' = [app EXCEPT !.running = FALSE]
    /\ stop_flag' = IF serial_thread THEN TRUE ELSE stop_flag
    /\ UNCHANGED <<queue, lpc, dt, tx, tx_error, serial_thread, rpc, ser, buf, parts,
                   wire, stream, ninputs>>

\* ---------------------------------------------------------- specification
L_IR == S_IR \o <<"2", "0">>
L_ENC == S_ENC \o <<"0">>
L_ULTRA == S_ULTRA \o <<"9">>
L_MAX == S_MAX \o <<"7">>
\* the lines the board sends in Spec
BoardLines == {S_BTN, S_BTN1, S_BTN2, L_IR, L_ENC, L_ULTRA, L_MAX}

Keys ==
    \/ KeyUp \/ KeyDown \/ KeyEnter \/ KeyC \/ KeyLeft \/ KeyRight \/ KeySpace

\* The app without a port: no reader thread, bindings and frame loop only
InitGame == Init /\ ~serial_thread

LoopNoPort ==
    \/ \E d \in DtSet : LoopBegin(d)
    \/ LoopGet \/ LoopEmpty \/ LoopSendCheck
    \/ \E gap \in GapSet : LoopUpdate(gap)

NextGame == Keys \/ LoopNoPort \/ AppStop

SpecGame == InitGame /\ [][NextGame]_vars

\* The app with a port: the reader thread, the board, the space bar and the
\* frame loop.  A read returns everything that has arrived, or times out.
InitBoard == Init /\ serial_thread

Loop ==
    \/ \E d \in BoardDtSet : LoopBegin(d)
    \/ LoopGet \/ LoopEmpty \/ LoopSendCheck \/ LoopSendWrite
    \/ \E gap \in GapSet : LoopUpdate(gap)

Reader ==
    \/ ReaderOpen
    \/ \E k \in {0, Len(wire)} : ReaderRead(k)
    \/ ReaderLine \/ ReaderError \/ ReaderStopped \/ ReaderClose

NextBoard ==
    \/ KeySpace
    \/ Loop
    \/ Reader
    \/ \E line \in BoardLines : DeviceSend(line)
    \/ AppStop

SpecBoard == InitBoard /\ [][NextBoard]_vars

\* Either configuration
Next == (~serial_thread /\ NextGame) \/ (serial_thread /\ NextBoard)

Spec == Init /\ [][Next]_vars


\* ------------------------------------------ the decoder specification
\* The reader thread alone, on an inbound stream that read() returns in
\* chunks of any size up to READ_SIZE.
D_GARBAGE == <<"G", "A", "R", "B", "A", "G", "E">>
D_IR12 == S_IR \o <<"1", "2">>
D_ENCm3 == S_ENC \o <<"-", "3">>
D_US7 == S_US \o <<"7">>
D_IRx == S_IR \o <<"x">>
D_IR1u2 == S_IR \o <<"1", "_", "2">>
D_BTNcr == S_BTN \o <<"\r">>
D_BTNbad == <<"B", BadByte, "T", "N">>
D_Empty == <<>>

DecoderLines ==
    {S_BTN, S_BTN1, S_BTN2, D_IR12, D_ENCm3, L_ULTRA, D_US7, L_MAX, D_GARBAGE,
     D_IRx, D_IR1u2, D_BTNcr, D_BTNbad, D_Empty}

\* the lines ls, each but the last followed by LF, the last one if terminated
RECURSIVE Flatten(_, _)
Flatten(ls, terminated) ==
    IF ls = <<>> THEN <<>>
    ELSE IF Len(ls) = 1
         THEN Head(ls) \o (IF terminated THEN <<LF>> ELSE <<>>)
         ELSE Head(ls) \o <<LF>> \o Flatten(Tail(ls), terminated)

ExampleStream == Flatten(<<D_IR12, S_BTN, D_GARBAGE, L_ULTRA>>, TRUE)

Streams ==
    {ExampleStream} \cup
    {Flatten(ls, t) : ls \in UNION {[1..n -> DecoderLines] : n \in 0..MaxStreamLines},
                      t \in BOOLEAN}

InitDecoder ==
    /\ InitCommon
    /\ serial_thread = TRUE
    /\ rpc = "open"
    /\ stream \in Streams
    /\ wire = stream

NextDecoder ==
    \/ ReaderOpen
    \/ \E k \in 0..Min(Len(wire), READ_SIZE) : ReaderRead(k)
    \/ ReaderLine
    \/ ReaderError
    \/ ReaderClose

SpecDecoder == InitDecoder /\ [][NextDecoder]_vars


\* ------------------------------------------------------------ properties
\* the bytes the reader has read so far (decoder specification)
Consumed == SubSeq(stream, 1, Len(stream) - Len(wire))

RECURSIVE EventsOf(_)
EventsOf(raws) ==
    IF raws = <<>> THEN <<>> ELSE Normalize(Head(raws)) \o EventsOf(Tail(raws))

\* what the reader has put on the mailbox, with what the complete lines of
\* the read it is working on will still put
Emitted == queue \o EventsOf(parts)

CompleteLines(b) == SubSeq(SplitLF(b), 1, Len(SplitLF(b)) - 1)
Remainder(b) == SplitLF(b)[Len(SplitLF(b))]

\* C2: chunk invariance of the line decoder.  However read() cuts the
\* inbound stream into chunks (empty ones included), the reader has emitted
\* exactly the events of the newline-terminated lines among the bytes read
\* so far, the same as one read of all of them gives; a line emits nothing
\* before its terminator is read, and the unterminated tail is the
\* carryover buf.
C2_ChunkInvariance ==
    rpc # "open" =>
        /\ Emitted = EventsOf(CompleteLines(Consumed))
        /\ buf = Remainder(Consumed)

\* C2 witness: a read has ended in the middle of a line after an earlier
\* line has put its event, and more of the line is still to come.
C2_Witness ==
    /\ rpc = "loop" /\ queue # <<>> /\ buf # <<>>
    /\ wire # <<>> /\ Head(wire) # LF

\* The claim's table, on the lines of the decoder specification
ClaimedEvents(line) ==
    CASE line \in {S_BTN, D_BTNcr, D_BTNbad} -> <<Ev("BTN", None)>>
      [] line = S_BTN1 -> <<Ev("BTN1", None)>>
      [] line = S_BTN2 -> <<Ev("BTN2", None)>>
      [] line = D_IR12 -> <<Ev("IR", 12)>>
      [] line = D_IR1u2 -> <<Ev("IR", 12)>>
      [] line = D_ENCm3 -> <<Ev("ENC", 0 - 3)>>
      [] line = L_ULTRA -> <<Ev("ULTRA", 9)>>
      [] line = D_US7 -> <<Ev("ULTRA", 7)>>
      [] OTHER -> <<>>

RECURSIVE ClaimedOf(_)
ClaimedOf(raws) ==
    IF raws = <<>> THEN <<>>
    ELSE ClaimedEvents(Head(raws)) \o ClaimedOf(Tail(raws))

\* C3: the normalizer's table.  Every complete line read so far has given
\* its one event, or none: BTN, BTN1, BTN2 the button and menu events,
\* IR:/ENC:/ULTRA:/US: with an integer the reading with that integer, any
\* other line (GARBAGE, MAX:7, IR:x, an empty line) nothing, in the order
\* of the lines; and once the example stream IR:12, BTN, GARBAGE, ULTRA:9 is
\* read the mailbox holds exactly IR 12, BTN, ULTRA 9.  A line without an
\* event does not end the reader: the lines after it give their events.
C3_NormalizerTable ==
    /\ rpc # "open" => Emitted = ClaimedOf(CompleteLines(Consumed))
    /\ (stream = ExampleStream /\ wire = <<>> /\ parts = <<>> /\ rpc # "open")
           => queue = <<Ev("IR", 12), Ev("BTN", None), Ev("ULTRA", 9)>>

\* C3 witness: the example stream has been read and its three events put.
C3_Witness ==
    /\ stream = ExampleStream /\ wire = <<>> /\ parts = <<>> /\ rpc = "loop"
    /\ Len(queue) = 3


\* steps of the frame loop, as the properties name them
UpdateStep == lpc = "update" /\ lpc' = "idle"
GetStep == lpc = "drain" /\ queue # <<>> /\ queue' = Tail(queue)
ButtonStep == GetStep /\ Head(queue).msg = "BTN"
PutStep ==
    /\ Len(queue') = Len(queue) + 1
    /\ SubSeq(queue', 1, Len(queue)) = queue
    /\ app' = app

\* C1: the mailbox.  Whatever the interleaving of the reader thread with the
\* frame loop, the mailbox changes only by a put at its tail, which moves no
\* field of the app, or by the loop taking its head, and the item taken is
\* handled in that step (so each event is handled once, in the order of the
\* puts); and the drain of a tick ends only on an empty mailbox, so every
\* event present when the tick began is handled before the tick goes on to
\* its status send and simulation step.
C1_Mailbox ==
    [][/\ queue' # queue =>
            \/ PutStep
            \/ GetStep /\ app' = handle_event(app, Head(queue))
       /\ (lpc = "drain" /\ lpc' # "drain") => (queue = <<>> /\ lpc' = "send")
       /\ lpc' \in {"write", "update"} => lpc \in {"send", "write", "update"}
      ]_vars

\* C1 witness: the loop is draining two pending events while the reader
\* thread is about to put another.
C1_Witness == lpc = "drain" /\ Len(queue) >= 2 /\ rpc = "lines"

\* C4 (the claim as stated): when the reader processes the line MAX:7 it
\* puts BestScoreOverride(7) on the mailbox, and handling a BestScoreOverride
\* sets best_score to its value in every session state.
C4_MaxOverride ==
    [][/\ (rpc = "lines" /\ Head(parts) = L_MAX /\ parts' = Tail(parts))
            => queue' = Append(queue, Ev("MAX", 7))
       /\ (GetStep /\ Head(queue).msg = "MAX")
            => app'.best_score = Head(queue).val
      ]_vars

ClaimedSpacing == (PIPE_SPEED * PIPE_INTERVAL) \div UNITS_PER_SEC + 60

\* C5: MenuConfirm (the Return key) in the top-level menu on option 0 starts
\* the round: Play, score 0, the bird at mid-height with no velocity, and
\* exactly three pipes at WIDTH, WIDTH + d, WIDTH + 2d, d = PIPE_SPEED *
\* PIPE_INTERVAL + 60; in any other state or on any other option it leaves
\* the session state as it is, so it never enters Play.
C5_StartRound ==
    [][KeyEnter =>
          IF app.state = "menu" /\ ~app.in_input_menu /\ app.menu_selection = 0
          THEN /\ app'.state = "play"
               /\ app'.score = 0
               /\ 2 * app'.bird_y = HEIGHT * SUB
               /\ app'.bird_vy = 0
               /\ Len(app'.pipes) = 3
               /\ \A i \in 1..3 : app'.pipes[i].x = WIDTH + (i - 1) * ClaimedSpacing
          ELSE app'.state = app.state
      ]_vars

\* C5 witness: the round has just been started by the key (no tick since).
C5_Witness ==
    /\ lpc = "idle" /\ app.state = "play" /\ app.score = 0
    /\ Len(app.pipes) = 3
    /\ app.pipes[1].x = 400 /\ app.pipes[2].x = 670 /\ app.pipes[3].x = 940

\* whether the detector reports termination in the tick that takes app to app'
Terminated ==
    \E gap \in GapSet :
        /\ app' = play_tick(app, dt, gap)
        /\ check_collision(update_physics(app, dt, gap)).hit

\* C6: the session goes from Play to GameOver exactly in the ticks whose
\* collision check reports termination; in that step best_score becomes
\* max(best_score, score) and game_over_time the tick's now.  So best_score >=
\* score in every GameOver state, and best_score never decreases.
C6_GameOver ==
    /\ [](app.state = "gameover" => app.best_score >= app.score)
    /\ [][/\ (app.state = "play" /\ app'.state # "play") =>
               /\ UpdateStep /\ Terminated
               /\ app'.state = "gameover"
               /\ app'.best_score = Max(app.best_score, app'.score)
               /\ app'.game_over_time = app.last_time
          /\ (UpdateStep /\ app.state = "play" /\ Terminated)
               => app'.state = "gameover"
          /\ app'.best_score >= app.best_score
         ]_vars

\* C6 witness: a round has ended below the best score of an earlier round.
C6_Witness ==
    app.state = "gameover" /\ app.score < app.best_score /\ app.score >= 0

\* C7 (the claim as stated): in GameOver a handled ButtonPress and a
\* MenuConfirm each take the session to Menu(top) at once.
C7_LeaveGameOver ==
    [][(app.state = "gameover" /\ (ButtonStep \/ KeyEnter))
          => (app'.state = "menu" /\ ~app'.in_input_menu)
      ]_vars

\* C7 (amended): in GameOver a handled ButtonPress takes the session to
\* Menu(top) at once, whatever time has passed since the round ended; a
\* MenuConfirm in GameOver changes nothing (the session stays in GameOver).
C7_ButtonLeavesGameOver ==
    [][/\ (app.state = "gameover" /\ ButtonStep)
            => (app'.state = "menu" /\ ~app'.in_input_menu)
       /\ (app.state = "gameover" /\ KeyEnter) => app' = app
      ]_vars

\* C7 witness: the loop is draining, the session is back in the menu, and
\* the round ended less than the dwell time ago.
C7_Witness ==
    /\ lpc = "drain" /\ app.state = "menu"
    /\ app.game_over_time # None
    /\ app.last_time - app.game_over_time < DWELL

\* time since the round ended, at a tick
Elapsed == app.last_time - app.game_over_time

\* C8: GameOver and the dwell timer.  A tick in GameOver takes the session
\* to Menu exactly when more than DWELL (3 s) has passed since game_over_time
\* and leaves it in GameOver otherwise; nothing but such a tick or a handled
\* ButtonPress ends GameOver, and it ends in Menu(top); and while the frame
\* loop keeps running, every GameOver is followed by Menu.
C8_Dwell ==
    /\ [][/\ (UpdateStep /\ app.state = "gameover") =>
               app'.state = (IF Elapsed > DWELL THEN "menu" ELSE "gameover")
          /\ (app.state = "gameover" /\ app'.state # "gameover") =>
               /\ ButtonStep \/ (UpdateStep /\ Elapsed > DWELL)
               /\ app'.state = "menu" /\ ~app'.in_input_menu
         ]_vars
    /\ (app.state = "gameover") ~> (app.state = "menu" \/ ~app.running)

\* C8 witness: a tick has found exactly the dwell time elapsed (not more)
\* and left the session in GameOver.
C8_Witness ==
    lpc = "idle" /\ app.state = "gameover" /\ Elapsed = DWELL

\* C9: with test_mode set check_collision reports no termination, whatever
\* the bird and the pipes are, and no tick taken with test_mode set takes the
\* session out of Play.
C9_TestMode ==
    /\ [](app.test_mode => ~check_collision(app).hit)
    /\ [][(UpdateStep /\ app.test_mode /\ app.state = "play")
             => app'.state = "play"]_vars

\* C9 witness: a tick has left the bird below the bottom edge, in test mode,
\* and the session is still in Play.
C9_Witness ==
    /\ lpc = "idle" /\ app.state = "play" /\ app.test_mode
    /\ app.bird_y >= HEIGHT * SUB

Passed(p) == p.x + PIPE_W < BX1

\* C10 (the claim as stated): a tick in Play with test_mode set leaves no
\* pipe behind the bird with its scored latch unset, and adds to score the
\* number of pipes it has latched.
C10_ScoreInTestMode ==
    [][(UpdateStep /\ app.state = "play" /\ app.test_mode) =>
          /\ \A i \in 1..Len(app'.pipes) :
                 Passed(app'.pipes[i]) => app'.pipes[i].scored
          /\ app'.score >= app.score
      ]_vars

\* The app without a port, with the keys that start a round, press the
\* button and toggle test mode, and with fairness: Tk runs the next tick, and
\* each step of a tick, while the loop is scheduled.
NextDwell == KeyEnter \/ KeySpace \/ KeyC \/ LoopNoPort \/ AppStop

SpecDwell == InitGame /\ [][NextDwell]_vars /\ WF_vars(LoopNoPort)


\* the pipes of ps that a tick of d clock units keeps (not pruned), in order
Survivors(ps, d) ==
    SelectSeq(ps, LAMBDA p : p.x - (PIPE_SPEED * d) \div UNITS_PER_SEC + PIPE_W > 0)

\* how many of the pipes ps, which a tick has turned into the first Len(ps)
\* of qs, that tick has latched
RECURSIVE Latched(_, _)
Latched(ps, qs) ==
    IF ps = <<>> THEN 0
    ELSE (IF ~Head(ps).scored /\ Head(qs).scored THEN 1 ELSE 0)
         + Latched(Tail(ps), Tail(qs))

\* the detector run once more on the world as it is
Rescan(a) ==
    [a EXCEPT !.pipes = check_collision(a).pipes,
              !.score = check_collision(a).score]

\* C11: the scoring latch.  Within a round score changes only in a tick in
\* Play; the pipes such a tick keeps stay in their order, none of them goes
\* from scored to unscored, a pipe it appends is unscored, and score grows by
\* exactly one for each pipe that goes from unscored to scored in the tick
\* (so a pipe counts once); and the detector run again on the world a tick
\* has left changes neither score nor any latch.  Outside such ticks score
\* changes only when a round starts, where it is reset to 0.
C11_ScoringLatch ==
    [][/\ (UpdateStep /\ app.state = "play") =>
            LET old == Survivors(app.pipes, dt)
                new == app'.pipes
            IN /\ Len(new) \in {Len(old), Len(old) + 1}
               /\ \A i \in 1..Len(old) :
                      /\ new[i].gap_y = old[i].gap_y
                      /\ old[i].scored => new[i].scored
               /\ Len(new) > Len(old) => ~new[Len(new)].scored
               /\ app'.score = app.score + Latched(old, SubSeq(new, 1, Len(old)))
               /\ app'.state = "play" => Rescan(app') = app'
       /\ (app'.score # app.score /\ ~(UpdateStep /\ app.state = "play")) =>
            (app'.state = "play" /\ app.state = "menu" /\ app'.score = 0
             /\ \A i \in 1..Len(app'.pipes) : ~app'.pipes[i].scored)
      ]_vars

\* C11 witness: the first pipe has been latched and counted and is still
\* on the field behind the bird; the next pipe is not latched.
C11_Witness ==
    /\ lpc = "idle" /\ app.state = "play" /\ app.score = 1
    /\ Len(app.pipes) >= 2
    /\ app.pipes[1].scored /\ app.pipes[1].x + PIPE_W < BX1
    /\ ~app.pipes[2].scored


\* C12: the flap.  A ButtonPress handled in Play with the Button device
\* (input_device 0) sets bird_vy to FLAP_VY, whatever it was, and changes
\* nothing else; handled in Play with an analog device (1, 2, 3) it changes
\* no field at all, so the bird's position and velocity and the session
\* state stay as they are.
C12_Flap ==
    [][(ButtonStep /\ app.state = "play") =>
          IF app.input_device = 0
          THEN app' = [app EXCEPT !.bird_vy = FLAP_VY]
          ELSE app' = app
      ]_vars

\* C12 witness: the loop has just handled a ButtonPress in Play with the
\* Button device while the bird was falling: the velocity is FLAP_VY and the
\* bird is below the height it started at.
C12_Witness ==
    /\ lpc = "drain" /\ app.state = "play" /\ app.input_device = 0
    /\ app.bird_vy = FLAP_VY /\ app.bird_y > (HEIGHT * SUB) \div 2

\* a ButtonPress is about to be handled in Play with an analog device
C12_AnalogCase ==
    /\ lpc = "drain" /\ queue # <<>> /\ Head(queue).msg = "BTN"
    /\ app.state = "play" /\ app.input_device # 0


\* the session is in the device submenu
InSubmenu == app.state = "menu" /\ app.in_input_menu

\* C13 (the claim as stated): input_device changes only in a step that
\* handles MenuConfirm (the Return key) in the device submenu; every other
\* event and every tick leaves it unchanged.
C13_DeviceOnlyOnConfirm ==
    [][app'.input_device # app.input_device => (KeyEnter /\ InSubmenu)]_vars

\* C13 (amended): input_device changes only in a step that handles
\* MenuConfirm or a ButtonPress in the device submenu; such a step sets it
\* to the submenu's input_selection and returns the session to Menu(top).
\* Every other event and every tick leaves it unchanged, in particular the
\* round start and reset, the ticks in Play, the end of the round and the
\* return to the menu; so it cannot change outside the menu.
C13_DeviceOnCommit ==
    [][/\ app'.input_device # app.input_device =>
            (KeyEnter \/ ButtonStep) /\ InSubmenu
       /\ ((KeyEnter \/ ButtonStep) /\ InSubmenu) =>
            /\ app'.input_device = app.input_selection
            /\ app'.state = "menu" /\ ~app'.in_input_menu
       /\ app.state # "menu" => app'.input_device = app.input_device
       /\ app'.state # app.state => app'.input_device = app.input_device
      ]_vars

\* C13 witness: a device other than the initial one was committed in the
\* submenu, a round was played with it and has ended, and it is still the
\* active device.
C13_Witness ==
    app.state = "gameover" /\ app.input_device # 0 /\ app.game_over_time # None


\* ------------------------------------------- the telemetry specification
\* The app with a port and a silent board, ticking at the frame rate: ticks
\* 0.05 s apart, the space bar pressed in the menu, the reader thread (which
\* opens the port, finds nothing to read, and closes the port after a read
\* error or after stop()), and the status send of each tick.
TelemetryDtSet == {1}

SpaceInMenu == app.state = "menu" /\ ninputs < MaxTelemetryInputs /\ KeySpace

LoopTelemetry ==
    \/ \E d \in TelemetryDtSet : LoopBegin(d)
    \/ LoopGet \/ LoopEmpty \/ LoopSendCheck \/ LoopSendWrite
    \/ \E gap \in GapSet : LoopUpdate(gap)

ReaderIdle ==
    \/ ReaderOpen \/ ReaderRead(0) \/ ReaderError \/ ReaderStopped
    \/ ReaderClose

NextTelemetry == SpaceInMenu \/ LoopTelemetry \/ ReaderIdle \/ AppStop

SpecTelemetry == InitBoard /\ [][NextTelemetry]_vars


\* C14: the telemetry rate limit.  Any two status messages written to the
\* port are at least SEND_PERIOD (0.2 s) apart in tick time, whether or not
\* writes failed in between, so the writes of any span of less than a second
\* (twenty ticks 0.05 s apart) are at most 5.
C14_RateLimit ==
    /\ \A i, j \in 1..Len(tx) : i < j => tx[j].at - tx[i].at >= SEND_PERIOD
    /\ \A i \in 1..Len(tx) : NOW - tx[i].at < UNITS_PER_SEC
    /\ Len(tx) <= 5

\* C14 witness: five writes within the last second of ticks, 0.2 s apart.
C14_Witness ==
    /\ Len(tx) = 5
    /\ \A i \in 1..4 : tx[i + 1].at - tx[i].at = SEND_PERIOD


\* ------------------------------------------------ the shutdown specification
\* the main thread after app.stop(): the module ends and the interpreter
\* exits without joining the reader, which is a daemon thread and runs no
\* further once the interpreter has exited
MainExit ==
    /\ lpc = "idle" /\ ~app.running
    /\ lpc' = "exited"
    /\ UNCHANGED <<app, queue, dt, tx, tx_error, readerVars, ninputs>>

ReaderAlive == lpc # "exited" /\ ReaderIdle

\* the steps the reader thread takes by itself when it is scheduled (a read
\* error is not among them: it may never happen)
ReaderProgress ==
    lpc # "exited" /\ (ReaderOpen \/ ReaderStopped \/ ReaderClose)

NextShutdown ==
    SpaceInMenu \/ LoopTelemetry \/ ReaderAlive \/ AppStop \/ MainExit

\* Tk runs the frame loop while it is scheduled, and the reader thread runs
\* while the process lives.
SpecShutdown ==
    InitBoard /\ [][NextShutdown]_vars
    /\ WF_vars(LoopTelemetry) /\ WF_vars(ReaderProgress)

\* C15 (the claim as stated): once the port is open the reader releases it
\* on its exit path.  The reader is never done with the port still open;
\* after stop() has set the flag, and after a read error has ended the loop,
\* the port is eventually closed; and after the reader has exited the frame
\* loop still takes every pending local event.
C15_ReaderReleases ==
    /\ [](rpc = "done" => ser # "open")
    /\ (stop_flag /\ ser = "open") ~> (ser = "closed")
    /\ (rpc = "close" /\ ser = "open") ~> (ser = "closed")
    /\ (rpc = "done" /\ queue # <<>> /\ app.running)
           ~> (queue = <<>> \/ ~app.running)

\* what holds of C15: the reader's exit path closes the port, and while the
\* app runs a read error is followed by the close and the frame loop goes on
C15_ExitPathCloses ==
    /\ [](rpc = "done" => ser # "open")
    /\ (rpc = "close" /\ ser = "open") ~> (ser = "closed" \/ ~app.running)
    /\ (rpc = "done" /\ queue # <<>> /\ app.running)
           ~> (queue = <<>> \/ ~app.running)


\* ------------------------------------------------ the encoder specification
\* The encoder has been chosen in the submenu (Down, Return, Down, Down,
\* Return, Up on the keyboard) and the board sends BTN, which starts the
\* round, and then the raw encoder values 20, 22, 18.
E_ENC20 == S_ENC \o <<"2", "0">>
E_ENC22 == S_ENC \o <<"2", "2">>
E_ENC18 == S_ENC \o <<"1", "8">>
EncoderRaw == <<20, 22, 18>>
EncoderStream == Flatten(<<S_BTN, E_ENC20, E_ENC22, E_ENC18>>, TRUE)

EncoderChosen ==
    key_up(key_enter(key_down(key_down(key_enter(key_down(InitApp))))))

InitEncoder ==
    /\ app = EncoderChosen
    /\ queue = <<>> /\ lpc = "idle" /\ dt = 0 /\ tx = <<>> /\ tx_error = 0
    /\ ser = "none" /\ buf = <<>> /\ parts = <<>>
    /\ stop_flag = FALSE /\ ninputs = 0
    /\ serial_thread = TRUE
    /\ rpc = "open"
    /\ stream = EncoderStream
    /\ wire = stream

NextEncoder ==
    \/ Loop
    \/ ReaderOpen
    \/ \E k \in 0..Min(Len(wire), READ_SIZE) : ReaderRead(k)
    \/ ReaderLine

SpecEncoder == InitEncoder /\ [][NextEncoder]_vars

\* the raw encoder values the frame loop has handled: the board's lines
\* that the reader has read completely, less those it has not put yet and
\* those waiting in the mailbox, less the BTN the stream starts with
HandledRaw ==
    LET n == Len(CompleteLines(Consumed)) - Len(parts) - Len(queue)
    IN IF n <= 1 THEN <<>> ELSE SubSeq(EncoderRaw, 1, n - 1)

\* the claim's ratio, in thirtieths, for the raw values seen in the round
ClaimedRatio30(raws) ==
    LET enc_center == raws[1]
        enc == raws[Len(raws)]
    IN Max(0 - 15, Min(15, enc - enc_center)) + 15

\* C16 (the claim as stated): in Encoder mode a tick in Play puts the bird
\* at ratio * (HEIGHT - 50) with ratio = (clamp(enc - enc_center, -15, 15)
\* + 15) / 30, enc_center the first raw value handled in the round and enc
\* the latest; for 20, 22, 18 the ratios are 15/30, 17/30, 13/30.
C16_EncoderRecenter ==
    [][(UpdateStep /\ app.state = "play" /\ app.input_device = 2
        /\ HandledRaw # <<>>) =>
          app'.bird_y * SENSOR_MAX
              = ClaimedRatio30(HandledRaw) * (HEIGHT - 50) * SUB
      ]_vars

\* what the code computes: the ratio is the clamped raw value over 30
C16_RawRatio ==
    [][(UpdateStep /\ app.state = "play" /\ app.input_device = 2
        /\ HandledRaw # <<>>) =>
          app'.bird_y * SENSOR_MAX
              = HandledRaw[Len(HandledRaw)] * (HEIGHT - 50) * SUB
      ]_vars


\* a status message has been written in the tick in progress
WroteThisTick == tx # <<>> /\ tx[Len(tx)].at = app.last_time

\* C17 (the claim as stated): the status message of a tick is written after
\* the tick's simulation and collision check, so it carries score,
\* best_score and the state flag as the tick leaves them.
C17_TelemetryAfterSimulation ==
    [][(UpdateStep /\ WroteThisTick) =>
          tx[Len(tx)].msg = StatusMsg(app')
      ]_vars

\* what the code does: the message is written after the drain and before
\* the simulation, so it carries the fields as the drain left them
C17_TelemetryBeforeSimulation ==
    [][/\ (UpdateStep /\ WroteThisTick) => tx[Len(tx)].msg = StatusMsg(app)
       /\ tx' # tx /\ lpc # "idle" => lpc = "write" /\ lpc' = "update"
      ]_vars


\* steps of serial_send_status, as the properties name them
WriteAttempt == lpc = "send" /\ lpc' = "write"
WriteFailed == lpc = "write" /\ lpc' = "update" /\ tx' = tx

\* C18 (the claim as stated): a write that raises changes no field of the
\* app and the tick goes on to its update; and no write is attempted while
\* a write has failed less than SEND_PERIOD (0.2 s) ago, so the tick after a
\* failed write makes no attempt.
C18_RetryAfterWindow ==
    [][/\ WriteFailed => app' = app
       /\ WriteAttempt => tx_error = 0
      ]_vars

\* what holds of C18: a failed write changes no field of the app, not even
\* last_serial_send, and the tick goes on; so every tick that finds the port
\* open after a failed write, and no write since, attempts the write again
C18_FailureSuppressed ==
    [][/\ WriteFailed => app' = app
       /\ (lpc = "send" /\ lpc' # "send" /\ ser = "open"
           /\ tx_error # 0 /\ tx_error > app.last_serial_send) => WriteAttempt
      ]_vars


\* ser.write is called: the step of serial_send_status after its checks
WriteCall == lpc = "write" /\ lpc' = "update"

\* C19 (the claim as stated): in every interleaving of the frame loop with
\* the reader thread, ser.write is called only on a handle that is open at
\* the moment of the call.
C19_WriteOnlyWhenOpen == [][WriteCall => ser = "open"]_vars

\* what holds of C19: the handle was open when serial_send_status tested
\* is_open, and a message is written only if it is still open at the write
C19_OpenWhenChecked ==
    [][/\ WriteAttempt => ser = "open"
       /\ tx' # tx /\ WriteCall => ser = "open"
      ]_vars


\* the claimed effect of MenuPrev (k = -1) and MenuNext (k = 1) on a step
MenuMove(k) ==
    IF app.state = "menu"
    THEN /\ ~app'.show_instructions
         /\ IF ~app.in_input_menu
            THEN /\ app'.menu_selection = (app.menu_selection + k) % 3
                 /\ app'.input_selection = app.input_selection
            ELSE /\ app'.input_selection
                        = (app.input_selection + k) % N_DEVICES
                 /\ app'.menu_selection = app.menu_selection
    ELSE /\ app'.menu_selection = app.menu_selection
         /\ app'.input_selection = app.input_selection

\* C20: menu navigation.  MenuPrev (the Up key) and MenuNext (the Down key)
\* handled in Menu move the active index by -1 / +1 modulo the number of
\* options (menu_selection modulo 3 at the top level, input_selection modulo
\* the number of devices in the submenu), leave the other index alone and
\* leave the overlay cleared; handled outside Menu they change neither index.
\* In every state the overlay is shown only in Menu(top) on option 2.
C20_MenuNavigation ==
    /\ [](app.show_instructions =>
             (app.state = "menu" /\ ~app.in_input_menu
              /\ app.menu_selection = 2))
    /\ [][(KeyUp => MenuMove(0 - 1)) /\ (KeyDown => MenuMove(1))]_vars

\* C20 witness: in the submenu MenuPrev has wrapped input_selection from
\* the first device to the last (Down, Return, Up), the overlay not shown.
C20_Witness ==
    /\ app.state = "menu" /\ app.in_input_menu /\ ninputs = 3
    /\ app.input_selection = N_DEVICES - 1 /\ app.menu_selection = 1
    /\ ~app.show_instructions

\* the overlay is shown (Return on option 2)
C20_OverlayShown == app.show_instructions /\ app.menu_selection = 2


\* the pipes of the field are in order, apart, with their gaps in range and
\* none of them wholly left of the field
PipesInOrder(ps) ==
    /\ \A i \in 1..Len(ps) - 1 : ps[i].x < ps[i + 1].x
    /\ \A i \in 1..Len(ps) :
           /\ ps[i].gap_y >= 100 /\ ps[i].gap_y <= HEIGHT - PIPE_GAP - 100
           /\ ps[i].x + PIPE_W > 0

\* x and gap of the pipes ps after a move of d clock units
Shifted(ps, d) ==
    [i \in 1..Len(ps) |->
        [x |-> ps[i].x - (PIPE_SPEED * d) \div UNITS_PER_SEC,
         gap_y |-> ps[i].gap_y]]

Places(ps) == [i \in 1..Len(ps) |-> [x |-> ps[i].x, gap_y |-> ps[i].gap_y]]

\* C21: the pipe list.  In Play, from the round start on and after every
\* tick, the pipes are in spawn order with strictly increasing x (so no two
\* share an x), every gap_y lies in 100 .. HEIGHT - PIPE_GAP - 100 and every
\* pipe has its trailing edge right of the left edge.  A tick in Play moves
\* the pipes, keeps those still on the field in their order, and appends one
\* pipe at x = WIDTH exactly when none is kept or the last kept one is
\* left of WIDTH - PIPE_SPEED * PIPE_INTERVAL.
C21_PipeList ==
    /\ [](app.state = "play" => PipesInOrder(app.pipes))
    /\ [][(UpdateStep /\ app.state = "play") =>
             LET kept == Shifted(Survivors(app.pipes, dt), dt)
                 due == \/ Len(kept) = 0
                        \/ kept[Len(kept)].x
                              < WIDTH - (PIPE_SPEED * PIPE_INTERVAL) \div UNITS_PER_SEC
                 new == Places(app'.pipes)
             IN IF due
                THEN /\ Len(new) = Len(kept) + 1
                     /\ SubSeq(new, 1, Len(kept)) = kept
                     /\ new[Len(new)].x = WIDTH
                     /\ ~app'.pipes[Len(new)].scored
                ELSE new = kept
         ]_vars

\* C21 witness: a tick in Play has appended a pipe at WIDTH, with the
\* largest gap_y, behind the pipes of the round start, the oldest of which
\* on the field is partly off the left edge.
C21_Witness ==
    /\ lpc = "idle" /\ app.state = "play" /\ Len(app.pipes) >= 2
    /\ app.pipes[Len(app.pipes)].x = WIDTH
    /\ app.pipes[Len(app.pipes)].gap_y = HEIGHT - PIPE_GAP - 100
    /\ app.pipes[1].x > WIDTH - 270 - 270
    /\ app.pipes[1].x < 0

\* a tick in Play is about to prune a pipe
C21_Pruning ==
    /\ lpc = "update" /\ app.state = "play"
    /\ Len(Survivors(app.pipes, dt)) < Len(app.pipes)


\* the claimed effect of MenuConfirm on the fields a, in Menu
Confirmed(a) ==
    IF a.in_input_menu
    THEN [a EXCEPT !.input_device = a.input_selection, !.in_input_menu = FALSE]
    ELSE CASE a.menu_selection = 0 ->
                  [a EXCEPT !.state = "play", !.score = 0, !.bird_vy = 0,
                            !.bird_y = (HEIGHT * SUB) \div 2,
                            !.game_over_time = None,
                            !.pipes = [i \in 1..3 |->
                                         [x |-> WIDTH + (i - 1) * ClaimedSpacing,
                                          gap_y |-> HEIGHT \div 2,
                                          scored |-> FALSE]]]
           [] a.menu_selection = 1 -> [a EXCEPT !.in_input_menu = TRUE]
           [] a.menu_selection = 2 ->
                  [a EXCEPT !.show_instructions = ~a.show_instructions]

\* two ButtonPress events are all the mailbox holds
TwoPresses == queue = <<Ev("BTN", None), Ev("BTN", None)>>

\* C22: a ButtonPress handled in Menu has exactly the effect of MenuConfirm:
\* on option 0 it starts the round, on option 1 it enters the submenu, on
\* option 2 it toggles the overlay, in the submenu it commits the device;
\* and the Return key in Menu has that same effect.  So when a tick finds
\* two ButtonPress events and the session in GameOver with option 0
\* selected, the first takes it to Menu and the second to Play, both within
\* the drain of that tick.
C22_ButtonConfirms ==
    /\ [][/\ (ButtonStep /\ app.state = "menu") => app' = Confirmed(app)
          /\ (KeyEnter /\ app.state = "menu") => app' = Confirmed(app)
          /\ (ButtonStep /\ app.state = "gameover") =>
                 (app'.state = "menu" /\ lpc' = "drain")
         ]_vars
    /\ [](lpc = "drain" /\ TwoPresses /\ app.state = "gameover"
          /\ app.menu_selection = 0 /\ ~app.in_input_menu
             => handle_event(handle_event(app, queue[1]), queue[2]).state = "play")

\* C22 witness: the drain of a tick has handled the first of two
\* ButtonPress events in GameOver, the session is in Menu(top) on option 0
\* within the dwell time, and the second is still in the mailbox.
C22_Witness ==
    /\ lpc = "drain" /\ queue = <<Ev("BTN", None)>>
    /\ app.state = "menu" /\ ~app.in_input_menu /\ app.menu_selection = 0
    /\ app.game_over_time # None
    /\ app.last_time - app.game_over_time < DWELL

\* a ButtonPress is about to be handled in the submenu
C22_SubmenuCase ==
    /\ lpc = "drain" /\ queue # <<>> /\ Head(queue).msg = "BTN"
    /\ app.state = "menu" /\ app.in_input_menu
    /\ app.input_selection # app.input_device

====
